---- MODULE Spec2Model ----
(***************************************************************************)
(* Playback continuation of the radio bot (src/bot.py): the MusicPlayer    *)
(* singleton, the chat commands start/stop/skip, the sink completion       *)
(* callback, the 30-minute watchdog and the gateway ready event.           *)
(*                                                                         *)
(* The bot runs on one asyncio event loop.  A coroutine runs without       *)
(* interruption until it awaits something that really suspends (the        *)
(* voice connect, a chat send, the executor call that resolves a stream    *)
(* URL).  Each suspended coroutine is a task with a position (pc); the     *)
(* audio sink renders on its own thread and may finish at any moment.      *)
(***************************************************************************)
EXTENDS Integers, Sequences, FiniteSets, Bags, TLC

\* ---------------------------------------------------------------- bounds
\* Largest catalog (tracks.json) the bot is started with.
MaxCatalog == 3
\* Coroutines that may be in flight at once, scheduled ones included.
MaxTasks == 2
\* Nested play_next calls one chain may make before the interpreter's
\* recursion limit ends it.
MaxDepth == 3
\* Seconds the clock is followed past a day boundary, and days it is followed.
MaxSeconds == 7
MaxDays == 1
\* Longest list of entries a remote playlist is resolved to.
MaxEntries == 2

\* ------------------------------------------------------ program constants
\* update_presence lets a call through when timedelta.seconds > 5.
PresenceInterval == 5
\* timedelta.seconds is the seconds part of the difference, less than a day.
SecondsPerDay == 86400

\* ---------------------------------------------------------------- tracks
\* Track(title, artist, duration, source_type, source_path, url): the fields
\* the playback path reads.  url is what the extractor is asked to resolve;
\* "dead" is a url for which extract_info raises.
NoTrack == [title |-> "None", source_type |-> "none", url |-> "none"]
TrackA == [title |-> "A", source_type |-> "local", url |-> "none"]
TrackB == [title |-> "B", source_type |-> "soundcloud", url |-> "dead"]
TrackC == [title |-> "C", source_type |-> "soundcloud", url |-> "ok"]
Library == <<TrackA, TrackB, TrackC>>

\* The catalogs load_tracks may produce: any selection of the library.
Catalogs ==
  { SelectSeq(Library, LAMBDA t : t \in S) :
      S \in { T \in SUBSET {TrackA, TrackB, TrackC} : Cardinality(T) <= MaxCatalog } }

\* A shuffle that would draw every position afresh from the list
\* (random.choices), so that a track may come twice and another not at all:
\* the behaviour C15 rules out.
ShufflesWithRepeats(s) ==
  { [i \in 1..Len(s) |-> s[f[i]]] : f \in [1..Len(s) -> 1..Len(s)] }

\* random.shuffle: every ordering of the list is possible.
Shuffles(s) ==
  { [i \in 1..Len(s) |-> s[f[i]]] : f \in Permutations(1..Len(s)) }

\* ydl.extract_info(track.url) raises for a url that cannot be resolved.
ExtractFails(track) == track.url = "dead"

\* --------------------------------------------------------------- playlists
\* What a remote playlist resolves to: entries with a title and a url; the
\* extractor may hand back None for an entry it could not read.
NoEntry == [title |-> "None", url |-> "none"]
EntryB == [title |-> "B", url |-> "dead"]
EntryC == [title |-> "C", url |-> "ok"]

\* Track(title=..., source_type='soundcloud', url=...) built from an entry.
TrackOf(entry) == [title |-> entry.title, source_type |-> "soundcloud", url |-> entry.url]

\* The lists of entries a resolution may return, None entries included.
RECURSIVE EntryLists(_)
EntryLists(n) ==
  IF n = 0 THEN {<<>>}
  ELSE LET shorter == EntryLists(n - 1)
       IN  shorter \cup { Append(l, e) : l \in shorter, e \in {NoEntry, EntryB, EntryC} }

\* playlist_name: the name given, or the title of the remote playlist.
PlaylistNames == {"P", "Q"}

\* self.playlists = {} and the result before any add_playlist.
NoPlaylists == [n \in {} |-> <<>>]
NoResult == [success |-> FALSE, message |-> "none"]

VARIABLES
  tracks,               \* player.tracks, the catalog
  track_queue,          \* player.track_queue
  current_track,        \* player.current_track
  is_playing,           \* player.is_playing
  voice_client,         \* player.voice_client is not None
  now_playing_message,  \* player.now_playing_message is not None
  vc_playing,           \* voice_client.is_playing(): the sink renders a source
  vc_source,            \* the track whose source the sink renders
  tasks,                \* the coroutines in flight, a bag of task records
  rejected,             \* the last !start was answered "You must be in a voice channel!"
  sinceStop,            \* history: stop() hit a playing sink, nothing restarted since
  sinceSkip,            \* history: dequeues since skip() hit a playing sink, -1 if none
  since_update,         \* whole seconds from player.last_activity_update to now, -1 if None
  reported,             \* history: what the last direct update_presence call did
  playlists,            \* player.playlists: name -> list of track dicts
  tracks_file,          \* the catalog persisted in tracks.json
  playlists_file,       \* the playlists persisted in playlists.json
  result                \* what the last add_playlist returned: (success, message)

vars == <<tracks, track_queue, current_track, is_playing, voice_client,
          now_playing_message, vc_playing, vc_source, tasks, rejected,
          sinceStop, sinceSkip, since_update, reported,
          playlists, tracks_file, playlists_file, result>>

presence == <<since_update, reported>>
library == <<playlists, tracks_file, playlists_file, result>>

history == <<sinceStop, sinceSkip>>

player == <<tracks, track_queue, current_track, is_playing, voice_client,
            now_playing_message>>
sink == <<vc_playing, vc_source>>

\* A coroutine in flight: where it is (pc), the track play_track holds, how
\* many nested play_next calls it has made, the error play_next was scheduled
\* with.  pc is "scheduled" for a play_next(error) that the sink's after
\* callback has handed to the loop and that has not run yet, the await the
\* coroutine is suspended at ("connect", "send", "extract"), or "play_next"
\* when play_track's except clause is about to call play_next again.
\* atPlaying and stale are history: the sink was rendering when the start()
\* that owns the coroutine was issued; a stop() or skip() was issued while
\* the track was being resolved.
Task(pc, track, depth, error, atPlaying, stale) ==
  [pc |-> pc, track |-> track, depth |-> depth, error |-> error,
   atPlaying |-> atPlaying, stale |-> stale]

\* asyncio.run_coroutine_threadsafe(self.play_next(e), bot.loop)
Scheduled(error) == Task("scheduled", NoTrack, 0, error, FALSE, FALSE)

Running == BagToSet(tasks)
HasFree == BagCardinality(tasks) < MaxTasks
Without(r) == tasks (-) SetToBag({r})
With(bag, r) == bag (+) SetToBag({r})

\* The event loop runs one coroutine at a time: while a coroutine is between
\* two awaits (pc = "play_next") nothing else on the loop runs.
LoopFree == \A r \in Running : r.pc # "play_next"

Init ==
  /\ tracks \in Catalogs
  /\ track_queue = <<>>
  /\ current_track = NoTrack
  /\ is_playing = FALSE
  /\ voice_client = FALSE
  /\ now_playing_message = FALSE
  /\ vc_playing = FALSE
  /\ vc_source = NoTrack
  /\ tasks = EmptyBag
  /\ rejected = FALSE
  /\ sinceStop = FALSE
  /\ sinceSkip = -1
  /\ since_update = -1
  /\ reported = "none"
  /\ playlists = NoPlaylists
  /\ tracks_file = tracks
  /\ playlists_file = playlists
  /\ result = NoResult

\* ------------------------------------------------------------ update_presence

\* (datetime.now() - self.last_activity_update).seconds: the seconds part of
\* the difference, the whole days dropped.
Seconds(elapsed) == elapsed % SecondsPerDay

\* An update_presence that would send every update of a track, the rate
\* limit dropped: the behaviour C11 rules out.
PresenceDueNoLimit(track) == track # NoTrack

\* The guard of update_presence: a track, and no update yet or the last one
\* more than five seconds of timedelta.seconds ago.
PresenceDue(track) ==
  /\ track # NoTrack
  /\ since_update = -1 \/ Seconds(since_update) > PresenceInterval

\* update_presence(track) up to its await: when the guard lets the call
\* through, bot.change_presence is sent and coroutine r waits for it;
\* otherwise the call returns at once and the coroutine ends (the edit of the
\* now-playing message changes nothing of the player).
UpdatePresence(rest, r) ==
  tasks' = IF PresenceDue(r.track) THEN With(rest, [r EXCEPT !.pc = "presence"]) ELSE rest

\* ------------------------------------------------------ play_next / play_track

\* Counting a dequeue in the window a skip() opened.
Bump(n) == IF n < 0 THEN n ELSE IF n >= 2 THEN 2 ELSE n + 1

\* play_track's except clause: log, then await self.play_next().  The nested
\* call is made unless the chain has reached the recursion limit, which ends
\* the coroutine with RecursionError.  rest: the other coroutines; r: this one.
Raise(rest, r) ==
  tasks' = IF r.depth >= MaxDepth THEN rest
           ELSE With(rest, [r EXCEPT !.pc = "play_next", !.track = NoTrack])

\* voice_client.play(source, after=...): raises ClientException when the
\* sink is already rendering; otherwise the source is attached and
\* play_track goes on to update_presence(track).
VoicePlay(rest, r) ==
  IF vc_playing
    THEN /\ Raise(rest, r)
         /\ UNCHANGED sink
    ELSE /\ vc_playing' = TRUE
         /\ vc_source' = r.track
         /\ UpdatePresence(rest, r)

\* The body of play_next after the error is logged, with the part of
\* play_track that runs before its first await: refill an empty queue, pop
\* the head, and either hand the track to the extractor (soundcloud) or play
\* the local file.
Advance(rest, r) ==
  \E q \in (IF track_queue = <<>> THEN Shuffles(tracks) ELSE {track_queue}) :
    IF q # <<>> /\ voice_client
      THEN /\ current_track' = Head(q)
           /\ track_queue' = Tail(q)
           /\ sinceSkip' = Bump(sinceSkip)
           /\ LET t == [r EXCEPT !.track = Head(q), !.depth = @ + 1, !.error = FALSE,
                                 !.atPlaying = FALSE, !.stale = FALSE]
              IN  IF Head(q).source_type = "soundcloud"
                    THEN /\ tasks' = With(rest, [t EXCEPT !.pc = "extract"])
                         /\ UNCHANGED sink
                    ELSE VoicePlay(rest, t)
      ELSE /\ track_queue' = q
           /\ tasks' = rest
           /\ UNCHANGED <<current_track, sink, sinceSkip>>

\* A play_next that would give up when the sink reported an error: the
\* behaviour C7 rules out, kept to show that C7 tells the two apart.
PlayNextStopsOnError(rest, r, error) ==
  IF error
    THEN /\ tasks' = rest
         /\ UNCHANGED <<track_queue, current_track, sink, sinceSkip>>
    ELSE Advance(rest, r)

\* One call of play_next(error) by coroutine r: the error is printed, never
\* acted on.
PlayNext(rest, r, error) == Advance(rest, r)

\* play_track's except clause calls play_next again.
Retry ==
  \E r \in Running :
    /\ r.pc = "play_next"
    /\ PlayNext(Without(r), r, FALSE)
    /\ UNCHANGED <<tracks, is_playing, voice_client, now_playing_message, rejected, sinceStop>>
    /\ UNCHANGED <<presence, library>>

\* The executor call of play_track returns: extract_info raised, or the
\* stream URL is wrapped in a source and played.
ExtractReturnOf(r) ==
  /\ LoopFree
  /\ r.pc = "extract"
  /\ IF ExtractFails(r.track)
       THEN /\ Raise(Without(r), r)
            /\ UNCHANGED sink
       ELSE VoicePlay(Without(r), r)
  /\ UNCHANGED <<player, rejected, history, presence, library>>

ExtractReturn == \E r \in Running : ExtractReturnOf(r)

\* ------------------------------------------------------------ the audio sink

\* The sink runs out of audio or its stream breaks: the player thread calls
\* after(error), which schedules play_next(error) on the loop.
SinkFinish(error) ==
  /\ vc_playing
  /\ HasFree
  /\ vc_playing' = FALSE
  /\ vc_source' = NoTrack
  /\ tasks' = With(tasks, Scheduled(error))
  /\ sinceSkip' = -1
  /\ UNCHANGED <<player, rejected, sinceStop, presence, library>>

\* The loop runs a scheduled completion callback: play_next(error).
Deliver ==
  \E r \in Running :
    /\ LoopFree
    /\ r.pc = "scheduled"
    /\ PlayNext(Without(r), r, r.error)
    /\ UNCHANGED <<tracks, is_playing, voice_client, now_playing_message, rejected, sinceStop>>
    /\ UNCHANGED <<presence, library>>

\* ------------------------------------------------------------------ commands

\* Coroutines whose track is being resolved see a stop() or skip() go by.
Stale(r) == IF r.pc = "extract" THEN [r EXCEPT !.stale = TRUE] ELSE r
Fresh(r) == [r EXCEPT !.stale = FALSE]
MarkStale ==
  [x \in { Stale(r) : r \in Running } |->
     CopiesIn(x, tasks) + (IF Fresh(x) # x THEN CopiesIn(Fresh(x), tasks) ELSE 0)]

\* start() past its voice check: connect if there is no voice client, then
\* raise the playing flag and announce the playback.
Join ==
  /\ sinceSkip' = -1
  /\ sinceStop' = FALSE
  /\ UNCHANGED <<tracks, track_queue, current_track, voice_client, now_playing_message>>
  /\ IF ~voice_client
       THEN /\ HasFree
            /\ tasks' = With(tasks, Task("connect", NoTrack, 0, FALSE, vc_playing, FALSE))
            /\ UNCHANGED is_playing
       ELSE IF ~is_playing
       THEN /\ HasFree
            /\ is_playing' = TRUE
            /\ tasks' = With(tasks, Task("send", NoTrack, 0, FALSE, vc_playing, FALSE))
       ELSE UNCHANGED <<is_playing, tasks>>

\* A start that would answer a user outside any voice channel and go on all
\* the same (the return of line 331 dropped): the behaviour C9 rules out.
StartWithoutReturn(inVoice) ==
  /\ LoopFree
  /\ rejected' = ~inVoice
  /\ Join
  /\ UNCHANGED <<sink, presence, library>>

\* !start, up to its first await.
Start(inVoice) ==
  /\ LoopFree
  /\ rejected' = ~inVoice
  /\ IF ~inVoice
       THEN UNCHANGED <<player, tasks, history>>
       ELSE Join
  /\ UNCHANGED <<sink, presence, library>>

\* channel.connect() returns inside start.
ConnectReturn ==
  \E r \in Running :
    /\ LoopFree
    /\ r.pc = "connect"
    /\ voice_client' = TRUE
    /\ IF ~is_playing
         THEN /\ is_playing' = TRUE
              /\ tasks' = With(Without(r), [r EXCEPT !.pc = "send"])
         ELSE /\ tasks' = Without(r)
              /\ UNCHANGED is_playing
    /\ UNCHANGED <<tracks, track_queue, current_track, now_playing_message,
                   sink, rejected, history, presence, library>>

\* ctx.send("Starting playback...") returns inside start, and play_next is
\* called without giving up the loop.
SendReturnOf(r) ==
  /\ LoopFree
  /\ r.pc = "send"
  /\ now_playing_message' = TRUE
  /\ PlayNext(Without(r), r, FALSE)
  /\ UNCHANGED <<tracks, is_playing, voice_client, rejected, sinceStop, presence, library>>

SendReturn == \E r \in Running : SendReturnOf(r)

\* voice_client.stop(): the player thread ends and calls after(None), which
\* schedules play_next(None) on the loop.
SinkStopped ==
  /\ HasFree
  /\ vc_playing' = FALSE
  /\ vc_source' = NoTrack
  /\ tasks' = With(MarkStale, Scheduled(FALSE))

\* !stop
Stop ==
  /\ LoopFree
  /\ IF voice_client /\ vc_playing
       THEN /\ SinkStopped
            /\ is_playing' = FALSE
            /\ sinceStop' = TRUE
            /\ sinceSkip' = -1
       ELSE /\ tasks' = MarkStale
            /\ UNCHANGED <<sink, is_playing, history>>
  /\ UNCHANGED <<tracks, track_queue, current_track, voice_client, now_playing_message,
                 rejected, presence, library>>

\* !skip
Skip ==
  /\ LoopFree
  /\ IF voice_client /\ vc_playing
       THEN /\ SinkStopped
            /\ sinceSkip' = 0
       ELSE /\ tasks' = MarkStale
            /\ UNCHANGED <<sink, sinceSkip>>
  /\ UNCHANGED <<player, rejected, sinceStop, presence, library>>

\* !nowplaying: what the command answers; it changes nothing.
NowPlayingReply ==
  IF current_track # NoTrack /\ is_playing
    THEN "Now Playing" ELSE "Nothing is playing right now."

\* maintain_connection, every 30 minutes.
Watchdog ==
  /\ LoopFree
  /\ IF voice_client /\ ~vc_playing
       THEN /\ HasFree
            /\ PlayNext(tasks, Task("play_next", NoTrack, 0, FALSE, FALSE, FALSE), FALSE)
       ELSE UNCHANGED <<track_queue, current_track, sink, tasks, sinceSkip>>
  /\ sinceStop' = FALSE
  /\ UNCHANGED <<tracks, is_playing, voice_client, now_playing_message, rejected,
                 presence, library>>

\* on_ready: the gateway (re)connected.
OnReady ==
  /\ LoopFree
  /\ track_queue' \in Shuffles(tracks)
  /\ sinceStop' = FALSE
  /\ sinceSkip' = -1
  /\ UNCHANGED <<tracks, current_track, is_playing, voice_client, now_playing_message,
                 sink, tasks, rejected, presence, library>>

\* ------------------------------------------------------------------ presence

\* bot.change_presence returns inside update_presence: on success the
\* timestamp is taken and play_track runs to its end; an exception (the
\* gateway connection closed) leaves update_presence and is caught by
\* play_track's except clause.
PresenceReturn(ok) ==
  \E r \in Running :
    /\ LoopFree
    /\ r.pc = "presence"
    /\ IF ok
         THEN /\ since_update' = 0
              /\ tasks' = Without(r)
         ELSE /\ Raise(Without(r), r)
              /\ UNCHANGED since_update
    /\ UNCHANGED <<player, sink, rejected, history, reported, library>>

\* The wall clock moves on by d seconds.
Tick(d) ==
  /\ since_update >= 0
  /\ Seconds(since_update + d) <= MaxSeconds
  /\ (since_update + d) \div SecondsPerDay <= MaxDays
  /\ since_update' = since_update + d
  /\ UNCHANGED <<player, sink, tasks, rejected, history, reported, library>>

\* ------------------------------------------------------------- add_playlist

\* [f(e) for e in l]
RECURSIVE MapTracks(_)
MapTracks(l) == IF l = <<>> THEN <<>> ELSE <<TrackOf(Head(l))>> \o MapTracks(Tail(l))

\* self.playlists[playlist_name] = track_list
Put(name, track_list) ==
  [n \in (DOMAIN playlists) \cup {name} |-> IF n = name THEN track_list ELSE playlists[n]]

\* The tail both paths share: the playlist is stored under its name,
\* save_playlists writes playlists.json, and success is returned.
\* save_tracks is not called.
StorePlaylist(name, track_list) ==
  /\ playlists' = Put(name, track_list)
  /\ playlists_file' = playlists'
  /\ result' = [success |-> TRUE, message |-> "Added playlist"]
  /\ UNCHANGED tracks_file

\* add_playlist returns (False, message) before anything is stored.
Refuse(message) ==
  /\ result' = [success |-> FALSE, message |-> message]
  /\ UNCHANGED <<tracks, playlists, tracks_file, playlists_file>>

\* add_playlist(url, name), from the return of its awaits on.  path "api":
\* resolve_soundcloud_url returned the playlist and its tracks; every track
\* is appended to the catalog and to the track list, and an empty track list
\* is refused.  path "fallback": the url was not resolved and
\* ydl.extract_info returned info: None, a dict without 'entries', or a dict
\* whose entries are walked, the None ones skipped.
AddPlaylist(path, info, name, entries) ==
  /\ LoopFree
  /\ Len(tracks) + Len(entries) <= MaxCatalog
  /\ IF path = "api"
       THEN /\ \A i \in 1..Len(entries) : entries[i] # NoEntry
            /\ info = "entries"
            /\ IF entries = <<>>
                 THEN Refuse("No tracks found in playlist")
                 ELSE /\ tracks' = tracks \o MapTracks(entries)
                      /\ StorePlaylist(name, MapTracks(entries))
       ELSE IF info = "none"
         THEN Refuse("Could not extract playlist information")
       ELSE IF info = "flat"
         THEN Refuse("No tracks found in playlist")
       ELSE LET kept == SelectSeq(entries, LAMBDA e : e # NoEntry)
            IN  /\ tracks' = tracks \o MapTracks(kept)
                /\ StorePlaylist(name, MapTracks(kept))
  /\ UNCHANGED <<track_queue, current_track, is_playing, voice_client, now_playing_message,
                 sink, tasks, rejected, history, presence>>

\* update_presence(track) called as play_track calls it at line 256, taken
\* apart from the playback around it.
Report(track) ==
  /\ LoopFree
  /\ HasFree
  /\ UpdatePresence(tasks, Task("presence", track, 0, FALSE, FALSE, FALSE))
  /\ reported' = IF PresenceDue(track) THEN "sent" ELSE "suppressed"
  /\ UNCHANGED <<player, sink, rejected, history, since_update, library>>

Next ==
  \/ \E inVoice \in BOOLEAN : Start(inVoice)
  \/ ConnectReturn
  \/ SendReturn
  \/ Retry
  \/ ExtractReturn
  \/ \E error \in BOOLEAN : SinkFinish(error)
  \/ Deliver
  \/ Stop
  \/ Skip
  \/ Watchdog
  \/ OnReady
  \/ \E ok \in BOOLEAN : PresenceReturn(ok)
  \/ Tick(MaxSeconds)

Spec == Init /\ [][Next]_vars

\* ----------------------------------------------------------------- liveness

\* The loop's scheduling: a scheduled callback runs, an awaited call returns
\* (per track, so that no resolution is starved by another), a nested
\* play_next call is made.  The watchdog and the commands are not assumed to
\* happen.  Gateway ready events are left out: each one may put an
\* unresolvable track back at the head of the queue, and MaxDepth stands for a
\* recursion limit far larger than the number of ready events one advance
\* can see.
ExtractReturnFor(track) == \E r \in Running : r.track = track /\ ExtractReturnOf(r)

LiveNext ==
  \/ \E inVoice \in BOOLEAN : Start(inVoice)
  \/ ConnectReturn
  \/ SendReturn
  \/ Retry
  \/ ExtractReturn
  \/ \E error \in BOOLEAN : SinkFinish(error)
  \/ Deliver
  \/ Stop
  \/ Skip
  \/ Watchdog
  \/ \E ok \in BOOLEAN : PresenceReturn(ok)
  \/ Tick(MaxSeconds)

LiveSpec ==
  /\ Init
  /\ [][LiveNext]_vars
  /\ WF_vars(Retry)
  /\ WF_vars(ConnectReturn)
  /\ WF_vars(SendReturn)
  /\ SF_vars(Deliver)
  /\ WF_vars(ExtractReturnFor(TrackB))
  /\ WF_vars(ExtractReturnFor(TrackC))

\* The presence reporter on its own: calls of update_presence with and
\* without a track, their returns, and a clock followed second by second
\* and day by day.
PresenceTracks == {NoTrack, TrackA}

PresenceNext ==
  \/ \E track \in PresenceTracks : Report(track)
  \/ \E ok \in BOOLEAN : PresenceReturn(ok)
  \/ Retry
  \/ Tick(1)
  \/ Tick(SecondsPerDay)

PresenceSpec == Init /\ [][PresenceNext]_vars

\* The library on its own: playlists are added and the gateway's ready
\* event reshuffles the queue; nothing is played.
LibraryNext ==
  \/ \E path \in {"api", "fallback"}, info \in {"none", "flat", "entries"},
        name \in PlaylistNames, entries \in EntryLists(MaxEntries) :
          AddPlaylist(path, info, name, entries)
  \/ OnReady

LibrarySpec == Init /\ [][LibraryNext]_vars

\* ------------------------------------------------------------------- claims

Advancing == { r \in Running : r.pc \in {"extract", "play_next"} }
Settled == tasks = EmptyBag
AllResolve == \A i \in 1..Len(tracks) : ~ExtractFails(tracks[i])
NoneResolves == tracks # <<>> /\ \A i \in 1..Len(tracks) : ExtractFails(tracks[i])
Playable == \E i \in 1..Len(tracks) : ~ExtractFails(tracks[i])
Attaches == ~vc_playing /\ vc_playing'

\* C1: a start() issued while the sink is rendering dequeues no track and
\* attaches no source: when its coroutine reaches play_next with the sink
\* still rendering, the queue, the current track and the sink stay as they are.
C1_StartWhilePlayingIsNoOp ==
  [][\A r \in Running :
       (r.atPlaying /\ vc_playing /\ SendReturnOf(r))
         => UNCHANGED <<track_queue, current_track, vc_playing, vc_source>>]_vars

\* C2: one skip() of a playing sink causes one advance: with a catalog whose
\* tracks all resolve, no second track is dequeued before the sink next
\* finishes or another command arrives.
C2_SkipAdvancesOnce == AllResolve => sinceSkip <= 1

\* C3: after stop() hit a playing sink, and until the next start() or
\* watchdog tick, the sink renders nothing and the queue is not touched.
C3_StopStaysIdle ==
  [][(sinceStop /\ sinceStop') => (~vc_playing' /\ track_queue' = track_queue)]_vars

\* C4: at most one advance is in progress at a time: no two coroutines have
\* each dequeued a track that is not yet attached or discarded.
C4_OneAdvanceAtATime ==
  /\ \A r, t \in Advancing : r = t
  /\ \A r \in Advancing : CopiesIn(r, tasks) = 1

\* C5: the track an advance attaches to the sink, after any number of failed
\* heads, is the current track.
C5_AttachedIsCurrent == [][Attaches => current_track' = vc_source']_vars

\* C6: when no track of a non-empty catalog resolves, an advance stops once
\* the cycle is exhausted: it makes no more attempts than the catalog has tracks.
C6_AdvanceStopsAfterCycle ==
  NoneResolves => \A r \in Running : r.depth <= Len(tracks)

C8_EmptyCatalogSettlesIdle ==
  (tracks = <<>> /\ voice_client /\ Settled)
    => (~vc_playing /\ current_track = NoTrack /\ ~is_playing)

\* C9: a start() from a user who is not in a voice channel is answered in
\* chat and changes nothing of the player, the sink or the coroutines.
C9_RejectedStartChangesNothing ==
  [][Start(FALSE)
       => (rejected' /\ UNCHANGED <<voice_client, is_playing, current_track, track_queue,
                                    now_playing_message, vc_playing, vc_source, tasks>>)]_vars

\* C9 witness: a start() was rejected while the bot was connected and playing.
C9_Witness == rejected /\ voice_client /\ vc_playing /\ is_playing

\* C10: the result of a resolution that a stop() or skip() overtook is
\* discarded: its source is not attached to the sink.
C10_StaleResolutionDiscarded ==
  [][\A r \in Running :
       (r.stale /\ ExtractReturnOf(r)) => ~(Attaches /\ vc_source' = r.track)]_vars

\* C11: an update_presence call less than five seconds after the last
\* successful update sends nothing, leaves last_activity_update as it is and
\* leaves nothing behind to be sent later.
C11_SecondReportIsNoOp ==
  [][\A track \in PresenceTracks :
       (since_update >= 0 /\ since_update < PresenceInterval /\ Report(track))
         => UNCHANGED <<since_update, tasks>>]_vars

\* C11 witness: a call was suppressed inside the five seconds, nothing pending.
C11_Witness ==
  /\ reported = "suppressed"
  /\ since_update >= 0 /\ since_update < PresenceInterval
  /\ tasks = EmptyBag

\* C12: a presence update that fails ends play_track's coroutine quietly: no
\* coroutine is left in the except clause about to call play_next.
C12_PresenceFailureSwallowed == [][PresenceReturn(FALSE) => LoopFree']_vars

\* C16: after stop() hit a playing sink, and until a track is next attached,
\* there is no current track and !nowplaying answers that nothing is playing.
C16_StopClearsCurrentTrack ==
  (sinceStop /\ ~vc_playing)
    => (current_track = NoTrack /\ NowPlayingReply = "Nothing is playing right now.")

\* C17: a queue that is not empty changes only by losing its head: it is
\* never replaced by a fresh shuffle.
C17_QueueOnlyLosesHead ==
  [][(track_queue # <<>> /\ track_queue' # track_queue)
       => track_queue' = Tail(track_queue)]_vars

\* C18: while the sink renders a track the playing flag is set.
C18_RenderingImpliesFlag == vc_playing => is_playing

\* C19: while the sink renders a source, the current track is the track the
\* source was made from.
C19_CurrentIsRendered == vc_playing => current_track = vc_source

\* C20: an update_presence call with a track, more than five whole seconds
\* after the last successful update, sends an update.
C20_LateReportIsSent ==
  [][\A track \in PresenceTracks \ {NoTrack} :
       (since_update > PresenceInterval /\ Report(track)) => reported' = "sent"]_vars

\* The tracks an add_playlist discovers: the entries that are not None,
\* none at all when the extractor returns nothing to walk.
Discovered(info, entries) ==
  IF info = "entries" THEN MapTracks(SelectSeq(entries, LAMBDA e : e # NoEntry)) ELSE <<>>

\* How often x occurs in the list l.
Count(l, x) == Cardinality({ i \in 1..Len(l) : l[i] = x })

\* C13: an add_playlist that discovers no track, by either path, returns a
\* failure, stores no playlist and leaves both files as they are.
C13_EmptyPlaylistRefused ==
  [][\A path \in {"api", "fallback"}, info \in {"none", "flat", "entries"},
        name \in PlaylistNames, entries \in EntryLists(MaxEntries) :
       (Discovered(info, entries) = <<>> /\ AddPlaylist(path, info, name, entries))
         => (~result'.success /\ UNCHANGED <<playlists, playlists_file, tracks_file>>)]_vars

\* C14: after a successful add_playlist playlists.json holds the new playlist
\* with its tracks in discovery order, and tracks.json holds the catalog in
\* memory, the merged tracks included.
C14_FilesReflectMemory ==
  [][\A path \in {"api", "fallback"}, info \in {"none", "flat", "entries"},
        name \in PlaylistNames, entries \in EntryLists(MaxEntries) :
       (AddPlaylist(path, info, name, entries) /\ result'.success)
         => /\ name \in DOMAIN playlists_file'
            /\ playlists_file'[name] = Discovered(info, entries)
            /\ tracks_file' = tracks']_vars

\* C15: shuffle_tracks makes the queue a permutation of the catalog, every
\* track as often as the catalog holds it, and leaves the catalog alone.
C15_ShuffleIsPermutation ==
  [][OnReady =>
       /\ Len(track_queue') = Len(tracks)
       /\ \A i \in 1..Len(tracks) : Count(track_queue', tracks[i]) = Count(tracks, tracks[i])
       /\ tracks' = tracks]_vars

\* C15 witness: a catalog with a track held twice has been shuffled into
\* another order.
C15_Witness ==
  /\ \E i, j \in 1..Len(tracks) : i # j /\ tracks[i] = tracks[j]
  /\ Len(track_queue) = Len(tracks)
  /\ track_queue # tracks

====
